---- MODULE Spec2Model ----
(***************************************************************************)
(* A model of rscat (Rapid Scene Composition & Analysis Tool): the winit   *)
(* event loop of src/main.rs, the orbit camera and the renderer of         *)
(* src/rendering/mod.rs and the fixtures of src/rendering/defaults.rs.     *)
(*                                                                         *)
(* Numbers.  Every f32 of a Vertex and of the camera target is a           *)
(* fixed-point integer in thousandths (1.0 is 1000).  Angles are integers  *)
(* in hundredths of a radian, the angle one pixel of drag turns the camera *)
(* (delta * 0.01).  The camera range is a value of a small model of f32    *)
(* (see F32 below).                                                        *)
(*                                                                         *)
(* Events.  Each WindowEvent arm of the closure of event_loop.run is one   *)
(* action.  ScaleFactorChanged (hidpi_factor is not read by the closure)   *)
(* and MainEventsCleared (request_redraw only) are not actions of the      *)
(* specifications below.  frame_trace and log_out record what the handler  *)
(* of the last event did to the GPU and to the log; every handler starts   *)
(* them afresh.  window is the size winit last reported for the window.    *)
(***************************************************************************)
EXTENDS Integers, Sequences, FiniteSets, TLC

VARIABLES
    lines,          \* main.rs:47   Vec<rendering::Line>, the scene's batches
    camera,         \* mod.rs:29    renderer.camera : OrbitCamera
    ui_state,       \* main.rs:26   UiState
    mouse_mode,     \* main.rs:75
    modifiers,      \* main.rs:76   only shift is read (main.rs:205)
    prev_mouse,     \* main.rs:74
    sc_desc,        \* mod.rs:165   swap chain descriptor (width, height)
    depth_texture,  \* mod.rs:270   extent of the depth texture
    window,         \* main.rs:62   inner size of the window, as winit reports it
    io,             \* imgui io: want_capture_mouse, want_capture_keyboard
    control_flow,   \* main.rs:118  "Wait", or "Exit" after CloseRequested
    panicked,       \* an expect()/unwrap() of the event handler failed
    frame_trace,    \* the GPU calls made by the event handled last
    dropped,        \* the file of the DroppedFile event handled last
    log_out         \* the error! lines written by the event handled last

vars == <<lines, camera, ui_state, mouse_mode, modifiers, prev_mouse, sc_desc,
          depth_texture, window, io, control_flow, panicked, frame_trace, dropped,
          log_out>>

(***************************************************************************)
(* Bounds of the model.                                                    *)
(***************************************************************************)
\* rows of a dropped file
MaxRows == 2
\* get_random_walk's n (1000000 in main.rs:48)
WalkLen == 1
\* get_sinc_vertices' grid is -SincHalf..SincHalf-1 (1000 in defaults.rs:37)
SincHalf == 1
\* |zoom| of a range a scroll by one line may reach (see MouseWheel)
MaxZoom == 2
\* drags of a quarter turn the target may be panned from the origin (see WithinPan)
MaxPan == 1

Milli(x) == x * 1000

(***************************************************************************)
(* Vertex and the fixtures of defaults.rs.                                 *)
(***************************************************************************)
Vertex(x, y, z, r, g, b, a, size) ==
    [position |-> <<x, y, z, Milli(1)>>, color |-> <<r, g, b, a>>, size |-> size]

\* a mutant: the range of indices includes its upper end
render_all_vertices_inclusive(vertices) == [i \in 1..(Len(vertices) + 1) |-> i - 1]

\* (0..vertices.len() as u32).collect()
render_all_vertices(vertices) == [i \in 1..Len(vertices) |-> i - 1]

Line(vertices) == [indicies |-> render_all_vertices(vertices), verticies |-> vertices]

\* a mutant: the loop stops one marker short
RECURSIVE axes_loop_short(_, _)
axes_loop_short(i, vertices) ==
    IF i >= 9 THEN vertices
    ELSE axes_loop_short(i + 1, vertices \o
            << Vertex(Milli(i), 0, 0, Milli(1), 0, 0, 0, Milli(20)),
               Vertex(0, Milli(i), 0, 0, Milli(1), 0, 0, Milli(20)),
               Vertex(0, 0, Milli(i), 0, 0, Milli(1), 0, Milli(20)) >>)

RECURSIVE axes_loop(_, _)
axes_loop(i, vertices) ==
    IF i >= 10 THEN vertices
    ELSE axes_loop(i + 1, vertices \o
            << Vertex(Milli(i), 0, 0, Milli(1), 0, 0, 0, Milli(20)),
               Vertex(0, Milli(i), 0, 0, Milli(1), 0, 0, Milli(20)),
               Vertex(0, 0, Milli(i), 0, 0, Milli(1), 0, Milli(20)) >>)

axes == axes_loop(1, << Vertex(0, 0, 0, Milli(1), Milli(1), Milli(1), Milli(1), Milli(40)) >>)

\* rand::thread_rng() is one generator per thread, seeded once: the three
\* walks of main draw from its stream one after the other.  A seed fixes the
\* stream; gen_range(0.0, 5.0) - 2.50 lies in [-2.5, 2.5), and the streams of
\* the model alternate between its two ends.
Seeds == {0, 1}
gen_range(seed, k) == IF (seed + k) % 2 = 0 THEN -2500 ELSE 2499

\* the draws of the walk that starts at draw number first of the stream
WalkSteps(seed, first, n) == [x \in 1..n |-> gen_range(seed, first + x - 1)]

\* steps[x+1] is the value the generator returns in iteration x.
RECURSIVE walk_loop(_, _, _, _, _, _, _, _)
walk_loop(x, y, verts, r, g, b, n, steps) ==
    IF x >= n THEN verts
    ELSE walk_loop(x + 1, y + steps[x + 1],
                   Append(verts, Vertex(x, y, 0, r, g, b, 0, Milli(1))),
                   r, g, b, n, steps)

get_random_walk(r, g, b, n, steps) == Line(walk_loop(0, 0, <<>>, r, g, b, n, steps))

\* z of get_sinc_vertices: 10 at distance 0, else 10*sin(d)/d, here by the
\* series 1 - d^2/6 (d^2 = (x_idx^2 + y_idx^2)/100), good near the origin.
SincZ(x_idx, y_idx) ==
    IF x_idx = 0 /\ y_idx = 0 THEN Milli(10)
    ELSE Milli(10) - ((100 * (x_idx * x_idx + y_idx * y_idx)) \div 6)

\* y.atan2(x) / 3.1415 / 2.0 in thousandths, to the nearest eighth of a turn.
SincHue(x_idx, y_idx) ==
    LET sx == IF x_idx > 0 THEN 1 ELSE IF x_idx < 0 THEN -1 ELSE 0
        sy == IF y_idx > 0 THEN 1 ELSE IF y_idx < 0 THEN -1 ELSE 0
    IN  CASE sx >= 0 /\ sy = 0  -> 0
          [] sx = 1  /\ sy = 1  -> 125
          [] sx = 0  /\ sy = 1  -> 250
          [] sx = -1 /\ sy = 1  -> 375
          [] sx = -1 /\ sy = 0  -> 500
          [] sx = -1 /\ sy = -1 -> -375
          [] sx = 0  /\ sy = -1 -> -250
          [] sx = 1  /\ sy = -1 -> -125

SincVertex(x_idx, y_idx) ==
    Vertex(x_idx * 100, y_idx * 100, SincZ(x_idx, y_idx),
           SincHue(x_idx, y_idx) + 500, 500 - SincHue(x_idx, y_idx),
           SincZ(x_idx, y_idx) \div 10, Milli(1), Milli(1))

\* the two nested loops, x_idx outer, y_idx inner, both -SincHalf..SincHalf-1
get_sinc_vertices ==
    LET w == 2 * SincHalf
    IN  [k \in 1..(w * w) |->
            SincVertex(((k - 1) \div w) - SincHalf, ((k - 1) % w) - SincHalf)]

(***************************************************************************)
(* file_to_vertices (main.rs:355).  A file is Unreadable or a sequence of  *)
(* lines; a line is a sequence of one-character strings.                   *)
(***************************************************************************)
Digits == {"0", "1", "2", "3", "4", "5", "6", "7", "8", "9"}

DigitVal(c) ==
    CASE c = "0" -> 0 [] c = "1" -> 1 [] c = "2" -> 2 [] c = "3" -> 3 [] c = "4" -> 4
      [] c = "5" -> 5 [] c = "6" -> 6 [] c = "7" -> 7 [] c = "8" -> 8 [] c = "9" -> 9

\* line.split(','): the fields between the commas; "" splits into one empty field.
RECURSIVE split(_)
split(line) ==
    IF \A i \in 1..Len(line) : line[i] # ","
    THEN << line >>
    ELSE LET k == CHOOSE i \in 1..Len(line) :
                      line[i] = "," /\ \A j \in 1..(i - 1) : line[j] # ","
         IN  << SubSeq(line, 1, k - 1) >> \o split(SubSeq(line, k + 1, Len(line)))

RECURSIVE DecimalValue(_)
DecimalValue(field) ==
    IF field = <<>> THEN 0
    ELSE 10 * DecimalValue(SubSeq(field, 1, Len(field) - 1)) + DigitVal(field[Len(field)])

\* str::parse::<f32>() on the fields the model draws: a non-empty run of
\* digits parses to its value; anything else (empty, a letter, a space) fails.
parse(field) ==
    IF field # <<>> /\ \A i \in 1..Len(field) : field[i] \in Digits
    THEN [ok |-> TRUE, val |-> Milli(DecimalValue(field))]
    ELSE [ok |-> FALSE, val |-> 0]

Err == [ok |-> FALSE, vertices |-> <<>>]

RowVertex(f) ==
    [position |-> <<parse(f[1]).val, parse(f[2]).val, parse(f[3]).val, Milli(1)>>,
     color |-> <<parse(f[4]).val, parse(f[5]).val, parse(f[6]).val, Milli(1)>>,
     size |-> parse(f[7]).val]

\* a mutant: a bad line is skipped and the rest of the file is ingested
RECURSIVE parse_rows_skipping(_, _)
parse_rows_skipping(rows, vertices) ==
    IF rows = <<>> THEN [ok |-> TRUE, vertices |-> vertices]
    ELSE LET f == split(Head(rows))
         IN  IF Len(f) # 7 \/ \E i \in 1..Len(f) : ~parse(f[i]).ok
             THEN parse_rows_skipping(Tail(rows), vertices)
             ELSE parse_rows_skipping(Tail(rows), Append(vertices, RowVertex(f)))

\* the for loop over reader.lines(): the first bad line returns Err at once
RECURSIVE parse_rows(_, _)
parse_rows(rows, vertices) ==
    IF rows = <<>> THEN [ok |-> TRUE, vertices |-> vertices]
    ELSE LET f == split(Head(rows))
         IN  IF Len(f) # 7 THEN Err
             ELSE IF \E i \in 1..7 : ~parse(f[i]).ok THEN Err
             ELSE parse_rows(Tail(rows), Append(vertices, RowVertex(f)))

file_to_vertices(file) ==
    IF ~file.readable THEN Err ELSE parse_rows(file.rows, <<>>)

\* The lines the model draws files from.
Join(fields) ==
    LET RECURSIVE J(_)
        J(fs) == IF Len(fs) = 1 THEN fs[1] ELSE fs[1] \o <<",">> \o J(Tail(fs))
    IN  J(fields)

LineGoodA   == Join(<< <<"1">>, <<"2">>, <<"3">>, <<"1">>, <<"0">>, <<"0">>, <<"1","0">> >>)
LineGoodB   == Join(<< <<"0">>, <<"0">>, <<"5">>, <<"0">>, <<"1">>, <<"0">>, <<"2">> >>)
LineSix     == Join(<< <<"1">>, <<"2">>, <<"3">>, <<"1">>, <<"0">>, <<"0">> >>)
LineEight   == Join(<< <<"1">>, <<"2">>, <<"3">>, <<"1">>, <<"0">>, <<"0">>, <<"1">>, <<"4">> >>)
LineLetter  == Join(<< <<"1">>, <<"2">>, <<"3">>, <<"1">>, <<"x">>, <<"0">>, <<"1">> >>)

SampleLines == {LineGoodA, LineGoodB, LineSix, LineEight, LineLetter}

RECURSIVE SeqsUpTo(_, _)
SeqsUpTo(S, n) ==
    IF n = 0 THEN {<<>>}
    ELSE LET shorter == SeqsUpTo(S, n - 1)
         IN  shorter \cup {Append(s, x) : s \in {t \in shorter : Len(t) = n - 1}, x \in S}

NoFile == [readable |-> FALSE, rows |-> <<>>, none |-> TRUE]
Unreadable == [readable |-> FALSE, rows |-> <<>>, none |-> FALSE]
Files == {Unreadable} \cup
         {[readable |-> TRUE, rows |-> rs, none |-> FALSE] : rs \in SeqsUpTo(SampleLines, MaxRows)}

(***************************************************************************)
(* F32: the values of the camera range.  A positive range is 10 * 0.75^zoom *)
(* (every range the scroll wheel reaches from the default 10.0); the other *)
(* kinds are 0.0, a negative number (a GUI entry), +infinity and NaN.      *)
(***************************************************************************)
Pos(k) == [kind |-> "pos", zoom |-> k]
Zero   == [kind |-> "zero", zoom |-> 0]
Neg    == [kind |-> "neg", zoom |-> 0]
Inf    == [kind |-> "inf", zoom |-> 0]
NaN    == [kind |-> "nan", zoom |-> 0]

\* x > 0.0 in f32
IsPositive(x) == x.kind \in {"pos", "inf"}

\* 0.75_f32.powf(d) is 0.0 from d = 362 on (0.75^362 < 2^-150) ...
PowUnderflow == 362
\* ... and +infinity from d = -309 on (0.75^-309 > f32::MAX)
PowOverflow == 309
\* 10.0 * 0.75^k rounds to 0.0 from k = 370 on ...
ZoomUnderflow == 370
\* ... and to +infinity from k = -301 on
ZoomOverflow == 301

\* (0.75_f32).powf(delta), as a factor: "pos" with zoom d stands for 0.75^d
powf075(delta) ==
    IF delta >= PowUnderflow THEN Zero
    ELSE IF delta <= -PowOverflow THEN Inf
    ELSE Pos(delta)

\* range * factor in f32
mul_f32(range, factor) ==
    CASE range.kind = "nan" \/ factor.kind = "nan" -> NaN
      [] range.kind = "zero" /\ factor.kind = "inf" -> NaN
      [] range.kind = "inf" /\ factor.kind = "zero" -> NaN
      [] range.kind = "zero" /\ factor.kind # "inf" -> Zero
      [] range.kind = "inf" /\ factor.kind # "zero" -> Inf
      [] range.kind = "neg" -> IF factor.kind = "zero" THEN Zero ELSE Neg
      [] range.kind = "pos" /\ factor.kind = "zero" -> Zero
      [] range.kind = "pos" /\ factor.kind = "inf" -> Inf
      [] range.kind = "pos" /\ factor.kind = "pos" ->
            IF range.zoom + factor.zoom >= ZoomUnderflow THEN Zero
            ELSE IF range.zoom + factor.zoom <= -ZoomOverflow THEN Inf
            ELSE Pos(range.zoom + factor.zoom)

(***************************************************************************)
(* OrbitCamera (mod.rs:29-103).                                            *)
(***************************************************************************)
\* 360_f32.to_radians(), 90_f32.to_radians(), 270_f32.to_radians() and
\* 45.0_f32.to_radians() in hundredths of a radian
Deg360 == 628
Deg90  == 157
Deg270 == 471
Deg45  == 79

\* a as f32 / b as f32, in thousandths
Ratio(a, b) == (a * 1000) \div b

\* fovy is 45.0 * 180.0 * 3.1415, znear 0.1 and zfar 100.0, in thousandths
OrbitCamera_default(aspect) ==
    [aspect |-> aspect,
     fovy |-> 25446150,
     znear |-> 100,
     zfar |-> Milli(100),
     target |-> <<0, 0, 0>>,
     range |-> Pos(0),
     azimuth |-> Deg45,
     elevation |-> Deg45]

\* a mutant: the new aspect ratio is dropped
set_aspect_ignored(cam, aspect) == cam

set_aspect(cam, aspect) == [cam EXCEPT !.aspect = aspect]

move_longitudinally(cam, delta) ==
    [cam EXCEPT !.range = mul_f32(cam.range, powf075(delta))]

\* Rust's % on f32: the remainder of the truncating division, which has the
\* sign of the dividend
rem_f32(a, m) == IF a >= 0 THEN a % m ELSE -((-a) % m)

\* a mutant: the lower arm of the match is missing
clamp_elevation_upper_only(d) == IF d >= Deg90 THEN Deg90 ELSE d

\* the match of mod.rs:83-87
clamp_elevation(d) ==
    IF d >= Deg90 THEN Deg90
    ELSE IF d <= -Deg270 THEN -Deg270
    ELSE d

move_on_orbit(cam, delta) ==
    LET azimuth == cam.azimuth - delta[1]
        elevation == cam.elevation + delta[2]
    IN  [cam EXCEPT !.elevation = clamp_elevation(elevation),
                    !.azimuth = rem_f32(azimuth, Deg360)]

\* 100 * sin(a), by Bhaskara's formula 16x(pi - x) / (5 pi^2 - 4x(pi - x)) on
\* [0, pi], pi being Deg360 / 2
SinTable ==
    LET pi == Deg360 \div 2
        half(u) == (1600 * u * (pi - u)) \div (5 * pi * pi - 4 * u * (pi - u))
    IN  [x \in 0..(Deg360 - 1) |-> IF x <= pi THEN half(x) ELSE -half(x - pi)]

SinCenti(a) == SinTable[a % Deg360]

CosCenti(a) == SinCenti(a + Deg90)

\* a mutant: the third row of transform is (0, 1)
move_focus_lifting(cam, delta) ==
    LET s == SinCenti(cam.azimuth)
        c == CosCenti(cam.azimuth)
    IN  [cam EXCEPT !.target = << cam.target[1] - ((-s) * delta[1] + c * delta[2]),
                                  cam.target[2] - (c * delta[1] + s * delta[2]),
                                  cam.target[3] - 100 * delta[2] >>]

\* transform * delta * 0.1, then target -= it; the third row of transform is 0
move_focus(cam, delta) ==
    LET s == SinCenti(cam.azimuth)
        c == CosCenti(cam.azimuth)
        world_space_delta == << (-s) * delta[1] + c * delta[2],
                                c * delta[1] + s * delta[2],
                                0 >>
    IN  [cam EXCEPT !.target = << cam.target[1] - world_space_delta[1],
                                  cam.target[2] - world_space_delta[2],
                                  cam.target[3] - world_space_delta[3] >>]

\* the value of a finite range in thousandths: 10.0 * 0.75^zoom, or 0.0
RECURSIVE RangeMilli(_)
RangeMilli(range) ==
    IF range.kind # "pos" THEN 0
    ELSE IF range.zoom = 0 THEN Milli(10)
    ELSE IF range.zoom > 0 THEN (RangeMilli(Pos(range.zoom - 1)) * 3) \div 4
    ELSE (RangeMilli(Pos(range.zoom + 1)) * 4) \div 3

\* mod.rs:105-115, range in thousandths and the angles in hundredths of a radian
cartesian_from_polar(range, azimuth, elevation) ==
    LET r_cos_el == (range * CosCenti(elevation)) \div 100
    IN  << (r_cos_el * CosCenti(azimuth)) \div 100,
           (r_cos_el * SinCenti(azimuth)) \div 100,
           (range * SinCenti(elevation)) \div 100 >>

\* Camera::generate_uniform (mod.rs:117-143).  delta, 0.01 rad, is one unit of
\* angle.  The two matrices nalgebra builds are kept as their arguments: the
\* view is look_at_rh(eye, target, up), the projection Perspective3::new(aspect,
\* fovy, znear, zfar), and opengl_to_wgpu_matrix is a constant.  kind is the
\* kind of the range the eye was computed from (a range that is not finite
\* leaves no finite eye; its coordinates are then those of range 0.0).
generate_uniform(cam) ==
    LET delta == 1
        polar == cartesian_from_polar(RangeMilli(cam.range), cam.azimuth, cam.elevation)
        probe == cartesian_from_polar(RangeMilli(cam.range), cam.azimuth,
                                      cam.elevation + delta)
        eye == << cam.target[1] + polar[1], cam.target[2] + polar[2],
                  cam.target[3] + polar[3] >>
        up == << cam.target[1] + probe[1] - eye[1], cam.target[2] + probe[2] - eye[2],
                 cam.target[3] + probe[3] - eye[3] >>
    IN  [camera_pos |-> [kind |-> cam.range.kind, xyzw |-> eye \o << Milli(1) >>],
         view_proj |-> [look_at_rh |-> [eye |-> eye, target |-> cam.target, up |-> up],
                        perspective |-> [aspect |-> cam.aspect, fovy |-> cam.fovy,
                                         znear |-> cam.znear, zfar |-> cam.zfar]]]

(***************************************************************************)
(* The four setters main.rs calls (main.rs:303-327).  Their bodies are not *)
(* in mod.rs; they are written from the specification (4.2).               *)
(***************************************************************************)
set_target(cam, target) == [cam EXCEPT !.target = target]

\* a mutant: the value is stored unchecked
set_range_unchecked(cam, range) == [camera |-> [cam EXCEPT !.range = range], err |-> FALSE]

\* rejects a non-positive value with a validation error
set_range(cam, range) ==
    IF IsPositive(range)
    THEN [camera |-> [cam EXCEPT !.range = range], err |-> FALSE]
    ELSE [camera |-> cam, err |-> TRUE]

\* wraps into [0, 360)
set_azimuth(cam, azimuth) == [cam EXCEPT !.azimuth = azimuth % Deg360]

\* clamps to [-270, 90]
set_elevation(cam, elevation) == [cam EXCEPT !.elevation = clamp_elevation(elevation)]

(***************************************************************************)
(* Renderer (mod.rs:145-386).                                              *)
(***************************************************************************)
GpuCall(op) == [op |-> op, pass |-> <<>>]

\* a mutant: the depth attachment is cleared by every pass
render_clearing_depth(cam, batch, vertices, indices, first_pass) ==
    [op |-> "begin_render_pass",
     pass |-> << [batch |-> batch,
                  vertex_buffer |-> Len(vertices),
                  index_buffer |-> indices,
                  uniform |-> generate_uniform(cam),
                  first_pass |-> first_pass,
                  load_op |-> IF first_pass THEN "Clear" ELSE "Load",
                  store_op |-> "Store",
                  depth_load_op |-> "Clear",
                  depth_store_op |-> "Store",
                  stencil_load_op |-> IF first_pass THEN "Clear" ELSE "Load",
                  stencil_store_op |-> "Store",
                  draw_indexed |-> Len(indices)] >>]

\* a mutant: rendering a batch turns the camera by the batch's place
render_turning_camera(cam, batch, vertices, indices, first_pass) ==
    [op |-> "begin_render_pass",
     pass |-> << [batch |-> batch,
                  vertex_buffer |-> Len(vertices),
                  index_buffer |-> indices,
                  uniform |-> generate_uniform(move_on_orbit(cam, <<batch, 0>>)),
                  first_pass |-> first_pass,
                  load_op |-> IF first_pass THEN "Clear" ELSE "Load",
                  store_op |-> "Store",
                  depth_load_op |-> IF first_pass THEN "Clear" ELSE "Load",
                  depth_store_op |-> "Store",
                  stencil_load_op |-> IF first_pass THEN "Clear" ELSE "Load",
                  stencil_store_op |-> "Store",
                  draw_indexed |-> Len(indices)] >>]

\* Renderer::render: the vertex, index and camera uniform buffers are created
\* from the arguments and from self.camera, then one render pass makes one
\* indexed draw of the batch (batch is its place in the frame, 0 for the axes;
\* vertex_buffer is the number of vertices copied)
render(cam, batch, vertices, indices, first_pass) ==
    [op |-> "begin_render_pass",
     pass |-> << [batch |-> batch,
                  vertex_buffer |-> Len(vertices),
                  index_buffer |-> indices,
                  uniform |-> generate_uniform(cam),
                  first_pass |-> first_pass,
                  load_op |-> IF first_pass THEN "Clear" ELSE "Load",
                  store_op |-> "Store",
                  depth_load_op |-> IF first_pass THEN "Clear" ELSE "Load",
                  depth_store_op |-> "Store",
                  stencil_load_op |-> IF first_pass THEN "Clear" ELSE "Load",
                  stencil_store_op |-> "Store",
                  draw_indexed |-> Len(indices)] >>]

\* a mutant: the depth texture is not recreated
resize_keeping_depth(renderer, size) ==
    [sc_desc |-> [width |-> size[1], height |-> size[2]],
     camera |-> set_aspect(renderer.camera, Ratio(size[1], size[2])),
     depth_texture |-> renderer.depth_texture]

\* Renderer::resize (mod.rs:303-325) on the fields of the Renderer the model
\* keeps; the depth texture takes its extent from sc_desc as just written
resize(renderer, size) ==
    LET desc == [width |-> size[1], height |-> size[2]]
    IN  [sc_desc |-> desc,
         camera |-> set_aspect(renderer.camera, Ratio(size[1], size[2])),
         depth_texture |-> [width |-> desc.width, height |-> desc.height]]

\* window.inner_size() of the 800 x 600 window (main.rs:64-68), at scale factor 1
InitialSizes == { <<800, 600>> }

(***************************************************************************)
(* main (main.rs:46-111): the state the event loop starts in.              *)
(***************************************************************************)
UiState_default ==
    [camera_target |-> <<0, 0, 0>>,
     camera_range |-> Pos(0),
     camera_azimuth |-> 0,
     camera_elevation |-> 0,
     gui_open |-> FALSE]

Init ==
    /\ \E seed \in Seeds :
          lines = << get_random_walk(Milli(1), 0, 0, WalkLen, WalkSteps(seed, 0, WalkLen)),
                     get_random_walk(0, Milli(1), 0, WalkLen,
                                     WalkSteps(seed, WalkLen, WalkLen)),
                     get_random_walk(0, 0, Milli(1), WalkLen,
                                     WalkSteps(seed, 2 * WalkLen, WalkLen)),
                     Line(get_sinc_vertices) >>
    \* Renderer::new (mod.rs:165-175, 270-283)
    /\ \E size \in InitialSizes :
          /\ sc_desc = [width |-> size[1], height |-> size[2]]
          /\ window = [width |-> size[1], height |-> size[2]]
          /\ depth_texture = [width |-> size[1], height |-> size[2]]
          /\ camera = OrbitCamera_default(Ratio(size[1], size[2]))
    /\ ui_state = UiState_default
    /\ mouse_mode = "Cursor"
    /\ modifiers = [shift |-> FALSE]
    /\ prev_mouse = <<0, 0>>
    /\ io = [want_capture_mouse |-> FALSE, want_capture_keyboard |-> FALSE]
    /\ control_flow = "Wait"
    /\ panicked = FALSE
    /\ frame_trace = <<>>
    /\ dropped = NoFile
    /\ log_out = <<>>

\* the closure of event_loop.run is called while the loop has not exited
Running == control_flow = "Wait" /\ ~panicked

(***************************************************************************)
(* The event handlers (main.rs:113-352), one action each.                  *)
(***************************************************************************)
\* WindowEvent::DroppedFile (main.rs:126-142)
DroppedFile(file) ==
    /\ Running
    /\ LET result == file_to_vertices(file)
       IN  /\ lines' = IF result.ok THEN << Line(result.vertices) >> ELSE <<>>
           /\ log_out' = IF result.ok THEN <<>>
                         ELSE << [level |-> "error", path |-> file] >>
    /\ dropped' = file
    /\ frame_trace' = <<>>
    /\ UNCHANGED <<camera, ui_state, mouse_mode, modifiers, prev_mouse, sc_desc,
                   depth_texture, window, io, control_flow, panicked>>

\* WindowEvent::CloseRequested (main.rs:149-155)
CloseRequested ==
    /\ Running
    /\ control_flow' = "Exit"
    /\ frame_trace' = <<>>
    /\ log_out' = <<>>
    /\ UNCHANGED <<lines, camera, ui_state, mouse_mode, modifiers, prev_mouse, sc_desc,
                   depth_texture, window, io, panicked, dropped>>

\* WindowEvent::KeyboardInput (main.rs:156-168)
KeyboardInput(state, virtual_keycode) ==
    /\ Running
    /\ ui_state' = IF /\ ~io.want_capture_keyboard
                      /\ state = "Released"
                      /\ virtual_keycode = "Grave"
                   THEN [ui_state EXCEPT !.gui_open = ~ui_state.gui_open]
                   ELSE ui_state
    /\ frame_trace' = <<>>
    /\ log_out' = <<>>
    /\ UNCHANGED <<lines, camera, mouse_mode, modifiers, prev_mouse, sc_desc,
                   depth_texture, window, io, control_flow, panicked, dropped>>

\* WindowEvent::MouseWheel (main.rs:169-185)
MouseWheel(kind, x, y) ==
    /\ Running
    /\ IF ~io.want_capture_mouse /\ kind = "LineDelta"
       THEN LET moved == move_longitudinally(move_focus(camera, <<-x, 0>>), y)
            IN  /\ camera' = moved
                /\ ui_state' = [ui_state EXCEPT !.camera_range = moved.range]
       ELSE UNCHANGED <<camera, ui_state>>
    /\ frame_trace' = <<>>
    /\ log_out' = <<>>
    /\ UNCHANGED <<lines, mouse_mode, modifiers, prev_mouse, sc_desc,
                   depth_texture, window, io, control_flow, panicked, dropped>>

\* WindowEvent::Resized (main.rs:186-191): the window has the size reported
Resized(size) ==
    /\ Running
    /\ LET r == resize([sc_desc |-> sc_desc, camera |-> camera,
                        depth_texture |-> depth_texture], size)
       IN  /\ sc_desc' = r.sc_desc
           /\ camera' = r.camera
           /\ depth_texture' = r.depth_texture
    /\ window' = [width |-> size[1], height |-> size[2]]
    /\ frame_trace' = << GpuCall("create_swap_chain"), GpuCall("create_texture") >>
    /\ log_out' = <<>>
    /\ UNCHANGED <<lines, ui_state, mouse_mode, modifiers, prev_mouse, io,
                   control_flow, panicked, dropped>>

\* a mutant: shift picks CameraLook
MouseInput_shift_inverted(state) ==
    /\ Running
    /\ mouse_mode' = IF io.want_capture_mouse THEN mouse_mode
                     ELSE IF state = "Pressed"
                          THEN (IF modifiers.shift THEN "CameraLook" ELSE "CameraPan")
                          ELSE "Cursor"
    /\ frame_trace' = <<>>
    /\ log_out' = <<>>
    /\ UNCHANGED <<lines, camera, ui_state, modifiers, prev_mouse, sc_desc,
                   depth_texture, window, io, control_flow, panicked, dropped>>

\* WindowEvent::MouseInput (main.rs:192-213)
MouseInput(state) ==
    /\ Running
    /\ mouse_mode' = IF io.want_capture_mouse THEN mouse_mode
                     ELSE IF state = "Pressed"
                          THEN (IF modifiers.shift THEN "CameraPan" ELSE "CameraLook")
                          ELSE "Cursor"
    /\ frame_trace' = <<>>
    /\ log_out' = <<>>
    /\ UNCHANGED <<lines, camera, ui_state, modifiers, prev_mouse, sc_desc,
                   depth_texture, window, io, control_flow, panicked, dropped>>

\* WindowEvent::ModifiersChanged (main.rs:214-219)
ModifiersChanged(shift) ==
    /\ Running
    /\ modifiers' = [shift |-> shift]
    /\ frame_trace' = <<>>
    /\ log_out' = <<>>
    /\ UNCHANGED <<lines, camera, ui_state, mouse_mode, prev_mouse, sc_desc,
                   depth_texture, window, io, control_flow, panicked, dropped>>

\* WindowEvent::CursorMoved (main.rs:220-239)
CursorMoved(position) ==
    /\ Running
    /\ LET mouse_delta == << position[1] - prev_mouse[1], position[2] - prev_mouse[2] >>
           moved == CASE mouse_mode = "Cursor" -> camera
                      [] mouse_mode = "CameraLook" -> move_on_orbit(camera, mouse_delta)
                      [] mouse_mode = "CameraPan" -> move_focus(camera, mouse_delta)
       IN  /\ camera' = moved
           /\ ui_state' = [ui_state EXCEPT !.camera_target = moved.target,
                                           !.camera_azimuth = moved.azimuth,
                                           !.camera_elevation = moved.elevation]
    /\ prev_mouse' = position
    /\ frame_trace' = <<>>
    /\ log_out' = <<>>
    /\ UNCHANGED <<lines, mouse_mode, modifiers, sc_desc,
                   depth_texture, window, io, control_flow, panicked, dropped>>

\* main.rs:262-266 with the flag of every pass set: a mutant
line_passes_clearing(cam, ls) ==
    [i \in 1..Len(ls) |-> render(cam, i, ls[i].verticies, ls[i].indicies, TRUE)]

\* the loop of main.rs:262-266: one pass per line, first_pass = false
line_passes(cam, ls) ==
    [i \in 1..Len(ls) |-> render(cam, i, ls[i].verticies, ls[i].indicies, FALSE)]

\* main.rs:255-266: the axes with first_pass = true, then the lines
frame_passes(cam, ls) ==
    << render(cam, 0, axes, render_all_vertices(axes), TRUE) >> \o line_passes(cam, ls)

\* a mutant: the command buffers are never submitted
submit_nothing(calls) == calls

\* main.rs:346-348: queue.submit(&[commands.finish(), imgui_commands.finish()])
submit(calls) == Append(calls, GpuCall("submit"))

\* What the widgets of the Camera window did in one frame: per field, <<>>
\* (not edited) or <<v>> (edited to v).
NoEdit == [target |-> <<>>, range |-> <<>>, azimuth |-> <<>>, elevation |-> <<>>]

\* main.rs:299-328: input_float3/input_float write the entry into ui_state and,
\* when they report an edit, the setter is called with it
camera_window(cam, ui, edit) ==
    LET ui1 == [ui EXCEPT
                  !.camera_target = IF edit.target # <<>> THEN edit.target[1] ELSE @,
                  !.camera_range = IF edit.range # <<>> THEN edit.range[1] ELSE @,
                  !.camera_azimuth = IF edit.azimuth # <<>> THEN edit.azimuth[1] ELSE @,
                  !.camera_elevation = IF edit.elevation # <<>> THEN edit.elevation[1] ELSE @]
        c1 == IF edit.target # <<>> THEN set_target(cam, ui1.camera_target) ELSE cam
        c2 == IF edit.range # <<>> THEN set_range(c1, ui1.camera_range).camera ELSE c1
        c3 == IF edit.azimuth # <<>> THEN set_azimuth(c2, ui1.camera_azimuth) ELSE c2
        c4 == IF edit.elevation # <<>> THEN set_elevation(c3, ui1.camera_elevation) ELSE c3
    IN  [camera |-> c4, ui_state |-> ui1]

\* Event::RedrawRequested (main.rs:243-349), for each of the inputs it may
\* read: next_texture is the result of get_next_texture, gui_result that of the
\* two fallible imgui calls, want_capture the flags imgui_context.frame()
\* computes, edit what the widgets of the Camera window did.
RedrawRequested(inputs) ==
    /\ Running
    /\ log_out' = <<>>
    \* the passes are recorded before the GUI reads any input
    /\ \E drawn \in { << GpuCall("get_next_texture") >> \o frame_passes(camera, lines) } :
           \E i \in inputs :
             IF i.next_texture = "Timeout"
             THEN \* .expect("Timeout when acquiring next swap chain texture")
                  /\ panicked' = TRUE
                  /\ frame_trace' = << GpuCall("get_next_texture: Timeout") >>
                  /\ UNCHANGED <<camera, ui_state, io>>
             ELSE IF ~ui_state.gui_open
             THEN /\ frame_trace' = submit(drawn)
                  /\ UNCHANGED <<camera, ui_state, io, panicked>>
             ELSE IF i.gui_result = "prepare_frame: Err"
             THEN \* .expect("Failed to prepare frame")
                  /\ panicked' = TRUE
                  /\ frame_trace' = drawn
                  /\ UNCHANGED <<camera, ui_state, io>>
             ELSE LET gui == camera_window(camera, ui_state, i.edit)
                  IN  /\ io' = i.want_capture
                      /\ camera' = gui.camera
                      /\ ui_state' = gui.ui_state
                      /\ IF i.gui_result = "render: Err"
                         THEN \* .expect("imgui_context rendering failed")
                              /\ panicked' = TRUE
                              /\ frame_trace' = drawn
                         ELSE /\ panicked' = FALSE
                              /\ frame_trace' = submit(Append(drawn, GpuCall("imgui_render")))
    /\ UNCHANGED <<lines, mouse_mode, modifiers, prev_mouse, sc_desc,
                   depth_texture, window, control_flow, dropped>>

(***************************************************************************)
(* The inputs the events are drawn from.                                   *)
(***************************************************************************)
ElementStates == {"Pressed", "Released"}
Keys == {"Grave", "Escape"}
NextTextures == {"Ok", "Timeout"}
GuiResults == {"Ok", "prepare_frame: Err", "render: Err"}
WantCaptures == [want_capture_mouse : BOOLEAN, want_capture_keyboard : BOOLEAN]

\* entries of the Range, Azimuth and Elevation fields
RangeInputs == {Neg, Zero, Pos(0), Pos(1)}
AzimuthInputs == {Deg45 - Deg90, Deg360 + Deg45}
ElevationInputs == {-Deg360, Deg45, Deg360}

\* the frames of Spec leave the Camera window alone
FrameEdits == {NoEdit}
OrbitEdits ==
    {NoEdit}
    \cup {[NoEdit EXCEPT !.azimuth = <<a>>] : a \in AzimuthInputs}
    \cup {[NoEdit EXCEPT !.elevation = <<e>>] : e \in ElevationInputs}
ZoomEdits ==
    {NoEdit} \cup {[NoEdit EXCEPT !.range = <<r>>] : r \in RangeInputs}

\* the inputs a redraw reads: those of the GUI only while it is open, once the
\* texture is acquired, and the flags and the entries only once prepare_frame
\* has succeeded
RedrawInputs(edits) ==
    LET unread == [gui_result |-> "Ok", want_capture |-> io, edit |-> NoEdit]
    IN  {[next_texture |-> t] @@ unread : t \in NextTextures}
        \cup (IF ~ui_state.gui_open THEN {}
              ELSE {[next_texture |-> "Ok"] @@ [unread EXCEPT !.gui_result = g] :
                        g \in GuiResults}
                   \cup {[next_texture |-> "Ok", gui_result |-> g, want_capture |-> w,
                          edit |-> e] :
                            g \in GuiResults \ {"prepare_frame: Err"},
                            w \in WantCaptures, e \in edits})

\* sizes a window is resized to (width and height of a visible window)
Sizes == { <<800, 600>>, <<1024, 768>>, <<600, 800>>, <<1920, 1080>> }

\* a quarter turn of azimuth and a half turn of elevation per move
Positions == {<<0, 0>>, <<Deg90, 0>>, <<Deg90, Deg360 \div 2>>}

\* lines of scroll: one notch either way, and a delta whose power leaves f32
ScrollDeltas == {-400, -1, 1, 400}

\* the scroll keeps a positive range within MaxZoom steps of the default
WithinZoom(y) ==
    LET r == move_longitudinally(camera, y).range
    IN  r.kind = "pos" => (r.zoom <= MaxZoom /\ r.zoom >= -MaxZoom)

(***************************************************************************)
(* Spec: the scene and the frames (file drops, the GUI toggle, redraws).   *)
(***************************************************************************)
Next ==
    \/ \E file \in Files : DroppedFile(file)
    \/ CloseRequested
    \/ \E state \in ElementStates, key \in Keys : KeyboardInput(state, key)
    \/ RedrawRequested(RedrawInputs(FrameEdits))

Spec == Init /\ [][Next]_vars

(***************************************************************************)
(* SpecOrbit: the camera angles under the pointer and the GUI.             *)
(***************************************************************************)
NextOrbit ==
    \/ \E state \in ElementStates : MouseInput(state)
    \/ \E position \in Positions : CursorMoved(position)
    \/ \E state \in ElementStates, key \in Keys : KeyboardInput(state, key)
    \/ RedrawRequested(RedrawInputs(OrbitEdits))

SpecOrbit == Init /\ [][NextOrbit]_vars

(***************************************************************************)
(* SpecZoom: the camera range under the wheel and the GUI.                 *)
(***************************************************************************)
NextZoom ==
    \/ \E kind \in {"LineDelta", "PixelDelta"}, y \in ScrollDeltas :
          WithinZoom(y) /\ MouseWheel(kind, 0, y)
    \/ \E state \in ElementStates, key \in Keys : KeyboardInput(state, key)
    \/ RedrawRequested(RedrawInputs(ZoomEdits))

SpecZoom == Init /\ [][NextZoom]_vars

\* a quarter turn of azimuth per move, or as long a pan; lines of sideways scroll
PanPositions == {<<0, 0>>, <<Deg90, 0>>}
PanScrolls == {-Deg90, 0, Deg90}

\* the target is within MaxPan drags of Deg90 pixels of the origin (a pixel
\* moves it by at most 0.1)
WithinPan(cam) ==
    \A i \in 1..2 : /\ cam.target[i] <= MaxPan * Deg90 * 100
                    /\ cam.target[i] >= -(MaxPan * Deg90 * 100)

(***************************************************************************)
(* SpecPan: the pointer with and without shift, and the GUI capturing the  *)
(* mouse.                                                                  *)
(***************************************************************************)
NextPan ==
    \/ \E state \in ElementStates : MouseInput(state)
    \/ \E shift \in BOOLEAN : ModifiersChanged(shift)
    \/ \E position \in PanPositions : CursorMoved(position) /\ WithinPan(camera')
    \/ \E state \in ElementStates, key \in Keys : KeyboardInput(state, key)
    \/ RedrawRequested(RedrawInputs(FrameEdits))

SpecPan == Init /\ [][NextPan]_vars

(***************************************************************************)
(* SpecScroll: the wheel scrolled both ways between drags of the pointer.  *)
(***************************************************************************)
NextScroll ==
    \/ \E x \in PanScrolls, y \in {-1, 0, 1} :
          WithinZoom(y) /\ MouseWheel("LineDelta", x, y) /\ WithinPan(camera')
    \/ \E state \in ElementStates : MouseInput(state)
    \/ \E position \in PanPositions : CursorMoved(position)

SpecScroll == Init /\ [][NextScroll]_vars

(***************************************************************************)
(* SpecResize: the window is resized while the pointer moves the camera.   *)
(***************************************************************************)
NextResize ==
    \/ \E size \in Sizes : Resized(size)
    \/ \E state \in ElementStates : MouseInput(state)
    \/ \E position \in Positions : CursorMoved(position)
    \/ \E kind \in {"LineDelta", "PixelDelta"}, y \in {-1, 1} :
          WithinZoom(y) /\ MouseWheel(kind, 0, y)

SpecResize == Init /\ [][NextResize]_vars

(***************************************************************************)
(* Reading a frame off frame_trace.                                        *)
(***************************************************************************)
IsPass(call) == call.op = "begin_render_pass"
Passes(calls) == SelectSeq(calls, IsPass)
CountOf(calls, op) == Cardinality({i \in 1..Len(calls) : calls[i].op = op})
FrameAcquired == frame_trace # <<>> /\ frame_trace[1].op = "get_next_texture"
Recreated == frame_trace # <<>> /\ frame_trace[1].op = "create_swap_chain"
FrameDrawn == Len(frame_trace) > 1 /\ IsPass(frame_trace[2])
FrameSubmitted == frame_trace # <<>> /\ frame_trace[Len(frame_trace)].op = "submit"

\* the batches whose pixels the target holds after the calls: a pass that
\* clears leaves only its own batch, a pass that loads adds its batch
RECURSIVE Composite(_, _)
Composite(calls, image) ==
    IF calls = <<>> THEN image
    ELSE LET c == Head(calls)
         IN  Composite(Tail(calls),
                 IF ~IsPass(c) THEN image
                 ELSE IF c.pass[1].load_op = "Clear" THEN {c.pass[1].batch}
                 ELSE image \cup {c.pass[1].batch})

(***************************************************************************)
(* The claims.                                                             *)
(***************************************************************************)
\* C1: in every frame the first draw call, the axes, is the only one issued
\* with first_pass = true and it comes right after the acquisition; every
\* later draw call of the frame, one per line of the scene (none included),
\* has first_pass = false; the target is cleared once and ends up holding
\* every batch drawn in the frame.
C1_ClearOnceBeforeAnyBatch ==
    FrameAcquired =>
        LET ps == Passes(frame_trace)
        IN  /\ Len(ps) = 1 + Len(lines)
            /\ frame_trace[2] = ps[1]
            /\ ps[1].pass[1].batch = 0
            /\ ps[1].pass[1].first_pass
            /\ \A i \in 2..Len(ps) : ~ps[i].pass[1].first_pass
            /\ Cardinality({i \in 1..Len(ps) : ps[i].pass[1].load_op = "Clear"}) = 1
            /\ Composite(frame_trace, {}) = 0..Len(lines)

C1_Witness ==
    /\ FrameSubmitted
    /\ Len(lines) > 1
    /\ Len(Passes(frame_trace)) = 1 + Len(lines)

\* C2: a render pass loads with Clear if and only if its first_pass flag is
\* true and with Load otherwise, the same for the color and for the depth
\* attachment, and both attachments are stored.
C2_LoadOpFollowsFirstPass ==
    \A i \in 1..Len(frame_trace) :
        IsPass(frame_trace[i]) =>
            LET p == frame_trace[i].pass[1]
            IN  /\ p.load_op = (IF p.first_pass THEN "Clear" ELSE "Load")
                /\ p.depth_load_op = p.load_op
                /\ p.store_op = "Store"
                /\ p.depth_store_op = "Store"

C2_Witness ==
    /\ \E i \in 1..Len(frame_trace) :
          /\ IsPass(frame_trace[i])
          /\ frame_trace[i].pass[1].first_pass
          /\ frame_trace[i].pass[1].depth_load_op = "Clear"
    /\ \E i \in 1..Len(frame_trace) :
          /\ IsPass(frame_trace[i])
          /\ ~frame_trace[i].pass[1].first_pass
          /\ frame_trace[i].pass[1].depth_load_op = "Load"

\* C3: the camera's azimuth is always in [0, 360) degrees.
C3_AzimuthInRange == camera.azimuth >= 0 /\ camera.azimuth < Deg360

\* C4: the camera's elevation is always in [-270, 90] degrees, and an
\* adjustment (a drag in CameraLook mode by dy pixels, or an entry in the
\* Elevation field) that asks for a value past a bound leaves the elevation at
\* that bound, any other one at the value asked for.
C4_ElevationSaturates ==
    /\ [](camera.elevation >= -Deg270 /\ camera.elevation <= Deg90)
    /\ [][LET dragged == mouse_mode = "CameraLook" /\ prev_mouse' # prev_mouse
              entered == /\ prev_mouse' = prev_mouse
                         /\ ui_state'.camera_elevation # ui_state.camera_elevation
              asked == IF dragged
                       THEN camera.elevation + (prev_mouse'[2] - prev_mouse[2])
                       ELSE ui_state'.camera_elevation
          IN  (dragged \/ entered) =>
                  /\ asked >= Deg90 => camera'.elevation = Deg90
                  /\ asked <= -Deg270 => camera'.elevation = -Deg270
                  /\ (asked < Deg90 /\ asked > -Deg270) => camera'.elevation = asked
        ]_vars

C4_Witness ==
    /\ mouse_mode = "CameraLook"
    /\ prev_mouse[2] = 0
    /\ camera.elevation = -Deg270
    /\ ui_state.camera_elevation = -Deg270

\* C5: the camera's range is strictly positive in every reachable state.
C5_RangePositive == IsPositive(camera.range)

\* C6: set_range with a non-positive value reports a validation error and
\* returns the camera as it was; a frame in which the Range field is set to a
\* non-positive value leaves every field of the camera unchanged.
C6_SetRangeRejectsNonPositive ==
    /\ [](\A r \in RangeInputs :
            ~IsPositive(r) => set_range(camera, r) = [camera |-> camera, err |-> TRUE])
    /\ [][(/\ frame_trace' # <<>>
           /\ ui_state'.camera_range # ui_state.camera_range
           /\ ~IsPositive(ui_state'.camera_range)) => camera' = camera]_vars

C6_Witness ==
    /\ FrameSubmitted
    /\ ~IsPositive(ui_state.camera_range)
    /\ IsPositive(camera.range)

\* C7: an event that reports a malformed file leaves the scene's batches as
\* they were.
C7_MalformedDropKeepsScene == [][log_out' # <<>> => lines' = lines]_vars

\* C8: parsing is all-or-nothing.  Of a readable dropped file: if some row
\* has a number of comma-separated fields other than 7, or a field that is
\* not a number, the parse fails and the scene holds no vertex at all; if every
\* row is well-formed the scene is one batch with one vertex per row, the
\* i-th being the vertex of the i-th row alone.
WellFormedRow(row) ==
    /\ Cardinality({i \in 1..Len(row) : row[i] = ","}) = 6
    /\ \A i \in 1..Len(row) : row[i] \in Digits \cup {","}
    /\ row[1] # "," /\ row[Len(row)] # ","
    /\ \A i \in 1..(Len(row) - 1) : ~(row[i] = "," /\ row[i + 1] = ",")

OnlyRow(row) == [readable |-> TRUE, rows |-> <<row>>, none |-> FALSE]

C8_ParseAllOrNothing ==
    dropped.readable =>
        IF \A i \in 1..Len(dropped.rows) : WellFormedRow(dropped.rows[i])
        THEN /\ file_to_vertices(dropped).ok
             /\ Len(lines) = 1
             /\ Len(lines[1].verticies) = Len(dropped.rows)
             /\ \A i \in 1..Len(dropped.rows) :
                   << lines[1].verticies[i] >> =
                       file_to_vertices(OnlyRow(dropped.rows[i])).vertices
        ELSE /\ ~file_to_vertices(dropped).ok
             /\ file_to_vertices(dropped).vertices = <<>>
             /\ lines = <<>>

C8_Witness ==
    /\ dropped.readable
    /\ dropped.rows = <<LineGoodA, LineSix>>
    /\ lines = <<>>

\* C9: a redraw whose frame acquisition times out leaves the host running.
C9_TimeoutIsRecoverable ==
    (frame_trace # <<>> /\ frame_trace[1].op = "get_next_texture: Timeout") => Running

\* C10: a redraw acquires at most one frame, before any other GPU call, and
\* submits at most once, as its last call and only after an acquisition; and
\* while the host runs every frame acquired has been submitted, so that no
\* frame is acquired while another is unsubmitted.
C10_AcquireSubmitAlternate ==
    LET acquired == CountOf(frame_trace, "get_next_texture")
        submitted == CountOf(frame_trace, "submit")
    IN  /\ acquired <= 1
        /\ submitted <= acquired
        /\ acquired = 1 => frame_trace[1].op = "get_next_texture"
        /\ submitted = 1 => frame_trace[Len(frame_trace)].op = "submit"
        /\ ~panicked => submitted = acquired

C10_Witness ==
    /\ FrameSubmitted
    /\ lines = <<>>
    /\ ui_state.gui_open
    /\ CountOf(frame_trace, "imgui_render") = 1

\* C11: a resize to a size (width, height) sets the camera's aspect ratio to
\* width / height and leaves the target, the range, the azimuth and the
\* elevation of the camera (and every other field of it) unchanged.
C11_ResizeSetsAspectOnly ==
    [][Recreated' =>
          camera' = [camera EXCEPT !.aspect = Ratio(window'.width, window'.height)]
      ]_vars

C11_Witness ==
    /\ Recreated
    /\ window = [width |-> 600, height |-> 800]
    /\ camera.aspect = 750
    /\ camera.azimuth # Deg45
    /\ camera.range = Pos(1)

\* C12: generate_uniform and render read the camera and do not write it.
\* Every render pass of a frame carries the uniform (eye position and
\* view-projection) of the camera as it was when the redraw began, so all the
\* passes of a frame carry the same one; and an event that draws while the
\* Camera window is closed (no setter is called) leaves every field of the
\* camera unchanged.
C12_DrawReadsCameraOnly ==
    [][FrameDrawn' =>
          \E u \in {generate_uniform(camera)} :
              /\ \A k \in 1..Len(frame_trace') :
                    IsPass(frame_trace'[k]) => frame_trace'[k].pass[1].uniform = u
              /\ ~ui_state.gui_open => camera' = camera
      ]_vars

C12_Witness ==
    /\ FrameSubmitted
    /\ Len(Passes(frame_trace)) > 2
    /\ camera.azimuth # Deg45
    /\ camera.elevation # Deg45
    /\ \A i \in 1..Len(Passes(frame_trace)) :
          /\ Passes(frame_trace)[i].pass[1].uniform = generate_uniform(camera)
          /\ Passes(frame_trace)[i].pass[1].uniform.camera_pos #
                 generate_uniform(OrbitCamera_default(camera.aspect)).camera_pos

\* C13: axes returns 28 vertices: the origin at index 0, then for i = 1..9
\* the points (i,0,0), (0,i,0) and (0,0,i) in this order; every frame draws
\* these 28 vertices, the two calls of a frame agreeing on their number.
C13_AxesAreTwentyEight ==
    /\ Len(axes) = 28
    /\ axes[1].position = <<0, 0, 0, Milli(1)>>
    /\ \A i \in 1..9 :
          /\ axes[3 * i - 1].position = <<Milli(i), 0, 0, Milli(1)>>
          /\ axes[3 * i].position = <<0, Milli(i), 0, Milli(1)>>
          /\ axes[3 * i + 1].position = <<0, 0, Milli(i), Milli(1)>>
    /\ \A k \in 1..Len(frame_trace) :
          (IsPass(frame_trace[k]) /\ frame_trace[k].pass[1].batch = 0) =>
              /\ frame_trace[k].pass[1].vertex_buffer = 28
              /\ frame_trace[k].pass[1].draw_indexed = 28

C13_Witness ==
    /\ FrameSubmitted
    /\ frame_trace[2].pass[1].batch = 0
    /\ frame_trace[2].pass[1].vertex_buffer = 28

\* C14: every batch passed to render (the axes, the startup batches, the batch
\* of a dropped file) has every index below its number of vertices, and its
\* index list is 0, 1, ..., len-1, as long as its vertex list; the same holds
\* of every batch the scene keeps.
C14_IndicesWithinVertices ==
    /\ \A k \in 1..Len(frame_trace) :
          IsPass(frame_trace[k]) =>
              LET p == frame_trace[k].pass[1]
              IN  /\ \A n \in 1..Len(p.index_buffer) : p.index_buffer[n] < p.vertex_buffer
                  /\ Len(p.index_buffer) = p.vertex_buffer
                  /\ \A n \in 1..Len(p.index_buffer) : p.index_buffer[n] = n - 1
    /\ \A l \in 1..Len(lines) :
          /\ Len(lines[l].indicies) = Len(lines[l].verticies)
          /\ \A n \in 1..Len(lines[l].indicies) : lines[l].indicies[n] = n - 1

C14_Witness ==
    /\ FrameSubmitted
    /\ dropped.readable
    /\ Len(dropped.rows) = 2
    /\ Len(lines) = 1
    /\ frame_trace[3].pass[1].index_buffer = <<0, 1>>
    /\ frame_trace[3].pass[1].vertex_buffer = 2

\* C15: after every handled event, and at startup, the target, the range, the
\* azimuth and the elevation the UI state holds for display are those of the
\* camera.
C15_UiShowsCamera ==
    /\ ui_state.camera_target = camera.target
    /\ ui_state.camera_range = camera.range
    /\ ui_state.camera_azimuth = camera.azimuth
    /\ ui_state.camera_elevation = camera.elevation

\* C16: the depth texture has the width and the height of the swap chain, and
\* both have the size of the window, the one Renderer::new or the last resize
\* was given; a resize repeated with the same size leaves the swap chain, the
\* depth texture and the camera as the first one left them.
C16_DepthMatchesSwapChain ==
    /\ depth_texture = sc_desc
    /\ sc_desc = window
    /\ \A size \in Sizes :
          LET once == resize([sc_desc |-> sc_desc, camera |-> camera,
                              depth_texture |-> depth_texture], size)
          IN  resize(once, size) = once

C16_Witness ==
    /\ Recreated
    /\ window = [width |-> 1920, height |-> 1080]
    /\ depth_texture = [width |-> 1920, height |-> 1080]
    /\ camera.aspect = Ratio(1920, 1080)
    /\ camera.elevation # Deg45

\* C17: move_focus changes at most the first two components of the target.
\* From every camera reached and for every delta, the camera move_focus
\* returns has the third component of the target, the range, the azimuth, the
\* elevation, the aspect (and every other field) as before, and for the zero
\* delta it is the camera as before; so does every drag in CameraPan mode.
FocusDeltas == {<<dx, dy>> : dx \in {-Deg90, -1, 0, 1, Deg90}, dy \in {-Deg90, -1, 0, 1, Deg90}}

C17_MoveFocusIsHorizontal ==
    /\ [](\A d \in FocusDeltas :
            \E m \in {move_focus(camera, d)} :
                /\ m = [camera EXCEPT !.target =
                                         <<m.target[1], m.target[2], camera.target[3]>>]
                /\ (d = <<0, 0>> => m = camera))
    /\ [][(mouse_mode = "CameraPan" /\ prev_mouse' # prev_mouse) =>
              camera' = [camera EXCEPT !.target =
                            <<camera'.target[1], camera'.target[2], camera.target[3]>>]
        ]_vars

C17_Witness ==
    /\ mouse_mode = "CameraPan"
    /\ prev_mouse # <<0, 0>>
    /\ camera.target[1] # 0
    /\ camera.target[2] # 0
    /\ camera.azimuth # Deg45

====
